---- MODULE Spec2Model ----
(***************************************************************************)
(* Model of src/clean_data.py: the fallback rate table, the per-row price  *)
(* validator convert_row, the bulk pass convert_prices_to_eur and the      *)
(* dataset cleaner clean_data.                                             *)
(*                                                                         *)
(* Data representation.                                                    *)
(*  - A DataFrame is a sequence of rows; a row is a function from column   *)
(*    names to cells, with the frame's index label under "index".          *)
(*  - A numeric cell is a tagged record: Num(n), NaN (missing / None) or   *)
(*    NonNumeric (a str in a price column).  Text cells are strings, the   *)
(*    missing text cell is NA and the missing timestamp is NaT.            *)
(*  - Money is exact: a price is a whole number of currency units and an   *)
(*    EUR amount of a row is a whole number of 1/Den(currency) EUR, where  *)
(*    Den(currency) is the denominator of that currency's fallback rate.   *)
(*    The floating point rounding of the program is not modelled.          *)
(*  - The historical-rate collaborator (CurrencyConverter.convert) is the  *)
(*    environment: each call returns a number, returns NaN, or raises.     *)
(***************************************************************************)
EXTENDS Integers, Sequences, FiniteSets, TLC

VARIABLES entry, arg, pc, df, results, initial_rows, ret, call_no, first_ret

vars == <<entry, arg, pc, df, results, initial_rows, ret, call_no, first_ret>>

\* Largest number of rows of an input dataset.
MaxRows == 2

-----------------------------------------------------------------------------
(* Cells *)

Num(n) == [t |-> "num", v |-> n]
NaN == [t |-> "nan", v |-> 0]
NonNumeric == [t |-> "str", v |-> 0]
Raises == [t |-> "raise", v |-> 0]
NoCall == [t |-> "nocall", v |-> 0]
NA == "NaN"
NaT == "NaT"

\* pd.isna on a numeric cell and on a text / timestamp cell
pd_isna(c) == c.t = "nan"
pd_isna_text(s) == s \in {NA, NaT}

isna(col, r) ==
    IF col \in {"price", "price_eur", "original_price"}
    THEN pd_isna(r[col]) ELSE pd_isna_text(r[col])

assign(r, col, val) == (col :> val) @@ r

-----------------------------------------------------------------------------
(* Fallback Rate Table: rate = num / den EUR per unit of foreign currency *)

get_fallback_rates ==
    [USD |-> [num |-> 93, den |-> 100],
     JPY |-> [num |-> 7, den |-> 1000],
     GBP |-> [num |-> 114, den |-> 100],
     CHF |-> [num |-> 102, den |-> 100],
     SGD |-> [num |-> 70, den |-> 100],
     HKD |-> [num |-> 12, den |-> 100],
     CNY |-> [num |-> 14, den |-> 100],
     KRW |-> [num |-> 73, den |-> 100000],
     TWD |-> [num |-> 3, den |-> 100],
     AED |-> [num |-> 24, den |-> 100]]

fallback_rates == get_fallback_rates

\* The unit of the EUR amounts of a row of this currency is 1/Den EUR.
Den(currency) ==
    IF currency \in DOMAIN fallback_rates THEN fallback_rates[currency].den ELSE 1

\* InWindow with the upper bound exclusive
InWindow_openTop(n, d) ==
    /\ 1000 <= n \div d
    /\ n \div d < 100000

\* 1000 <= x <= 100000 for x = n/d, written without the product 100000 * d
InWindow(n, d) ==
    /\ 1000 <= n \div d
    /\ \/ n \div d < 100000
       \/ n \div d = 100000 /\ n % d = 0

\* fallback_price with a default rate of 1 for an unknown currency
fallback_price_default1(price, currency) ==
    IF currency \in DOMAIN fallback_rates
    THEN price * fallback_rates[currency].num
    ELSE price * 1

\* price * fallback_rates.get(currency, 0), in units of 1/Den(currency) EUR
fallback_price(price, currency) ==
    IF currency \in DOMAIN fallback_rates
    THEN price * fallback_rates[currency].num
    ELSE price * 0

abs(x) == IF x < 0 THEN 0 - x ELSE x

\* within_variation with <= 0.1
within_variation_inclusive(converted_price, fb_price) ==
    10 * abs(converted_price - fb_price) <= fb_price

\* within_variation with < 0.2
within_variation_20(converted_price, fb_price) ==
    5 * abs(converted_price - fb_price) < fb_price

\* abs(converted_price - fallback_price) / fallback_price < 0.1, for
\* fallback_price > 0 (a zero fallback_price raises ZeroDivisionError)
within_variation(converted_price, fb_price) ==
    10 * abs(converted_price - fb_price) < fb_price

-----------------------------------------------------------------------------
(* Text and date conversions over the values that occur in the datasets *)

str_strip(s) ==
    CASE s = " usd" -> "usd"
      [] s = " Nautilus " -> "Nautilus"
      [] OTHER -> s

str_upper(s) ==
    CASE s = "usd" -> "USD"
      [] s = " usd" -> " USD"
      [] s = "eur" -> "EUR"
      [] OTHER -> s

str_contains_HTTPS(s) == s \in {"HTTPS://x"}

\* pd.to_datetime: a parseable value becomes a Timestamp, an existing
\* Timestamp stays, a missing value becomes NaT; anything else does not parse
Parses(v) == v \in {"2023-05-01", "2023-05-01 00:00:00"}
to_datetime(v) == IF Parses(v) THEN "2023-05-01 00:00:00" ELSE NaT
\* line 44: a value that does not parse raises; a missing one gives NaT, whose
\* date() is NaT again, and the collaborator is called with it
to_datetime_raises(v) == ~Parses(v) /\ ~pd_isna_text(v)

dt_year(ts) == IF ts = "2023-05-01 00:00:00" THEN 2023 ELSE 0
dt_quarter(ts) == IF ts = "2023-05-01 00:00:00" THEN 2 ELSE 0

-----------------------------------------------------------------------------
(* convert_row *)

\* The outcome of one call of convert_row on `row`: the value returned
\* (Num, NaN for None, Raises when the call raises), the return statement
\* taken, the number of collaborator calls made and the collaborator's answer.
Outcome(row, path, value, calls, answer) ==
    [row |-> row, path |-> path, value |-> value, calls |-> calls, answer |-> answer]

\* fallback_only without the test of line 62
fallback_only_unchecked(price, currency) ==
    IF currency \in DOMAIN fallback_rates
    THEN Num(price * fallback_rates[currency].num)
    ELSE NaN

\* lines 59-65: fallback rate only
fallback_only(price, currency) ==
    IF currency \in DOMAIN fallback_rates
       /\ InWindow(price * fallback_rates[currency].num, Den(currency))
    THEN Num(price * fallback_rates[currency].num)
    ELSE NaN

\* lines 46-57: TRUE iff line 55 returns the collaborator's answer.  A raise
\* of the collaborator, a comparison with a NaN answer and the division by a
\* zero fallback_price all end in the bare except of line 56 or fall through.
historical_accepted(price, currency, ans) ==
    /\ ans.t = "num"
    /\ InWindow(ans.v, Den(currency))
    /\ fallback_price(price, currency) # 0
    /\ within_variation(ans.v, fallback_price(price, currency))

\* convert_foreign that asks the collaborator again after a failed call
convert_foreign_retry(row, price, currency, ans) ==
    IF to_datetime_raises(row["life_span_date"])
    THEN Outcome(row, "error", NaN, 0, NoCall)
    ELSE IF historical_accepted(price, currency, ans)
    THEN Outcome(row, "historical", ans, 1, ans)
    ELSE IF fallback_only(price, currency) # NaN
    THEN Outcome(row, "fallback", fallback_only(price, currency),
                 IF ans = Raises THEN 2 ELSE 1, ans)
    ELSE Outcome(row, "none", NaN, IF ans = Raises THEN 2 ELSE 1, ans)

\* lines 43-65: a row that is not EUR
convert_foreign(row, price, currency, ans) ==
    IF to_datetime_raises(row["life_span_date"])
    THEN Outcome(row, "error", NaN, 0, NoCall)
    ELSE IF historical_accepted(price, currency, ans)
    THEN Outcome(row, "historical", ans, 1, ans)
    ELSE IF fallback_only(price, currency) # NaN
    THEN Outcome(row, "fallback", fallback_only(price, currency), 1, ans)
    ELSE Outcome(row, "none", NaN, 1, ans)

\* lines 31-69
convert_row(row, ans) ==
    IF pd_isna(row["price"])
    THEN Outcome(row, "invalid", NaN, 0, NoCall)
    ELSE IF row["price"].t = "str"
    THEN \* line 33 raises TypeError; the handler of line 68 reads the local
         \* `currency` before line 37 bound it: UnboundLocalError propagates
         Outcome(row, "propagates", Raises, 0, NoCall)
    ELSE IF row["price"].v <= 0
    THEN Outcome(row, "invalid", NaN, 0, NoCall)
    ELSE IF row["currency"] = "EUR"
    THEN Outcome(row, "eur",
                 IF InWindow(row["price"].v, 1) THEN row["price"] ELSE NaN,
                 0, NoCall)
    ELSE convert_foreign(row, row["price"].v, row["currency"], ans)

-----------------------------------------------------------------------------
(* convert_prices_to_eur and clean_data on frames *)

\* lines 72-74
save_original(frame) ==
    [i \in DOMAIN frame |->
        assign(assign(assign(frame[i], "original_price", frame[i]["price"]),
                      "original_currency", frame[i]["currency"]),
               "conversion_method", "direct")]

\* line 76, once apply has called convert_row on every row
set_price_eur(frame, res) ==
    [i \in DOMAIN frame |-> assign(frame[i], "price_eur", res[i].value)]

\* line 99
drop_https(frame) ==
    SelectSeq(frame, LAMBDA r: ~str_contains_HTTPS(r["collection"]))

\* lines 103-105; .str methods leave a missing value missing
standardize(frame) ==
    [i \in DOMAIN frame |->
        [frame[i] EXCEPT !["currency"] = str_upper(str_strip(@)),
                         !["collection"] = str_strip(@),
                         !["reference_code"] = str_strip(@)]]

\* line 109
convert_dates(frame) ==
    [i \in DOMAIN frame |-> [frame[i] EXCEPT !["life_span_date"] = to_datetime(@)]]

dropna(frame, subset) ==
    SelectSeq(frame, LAMBDA r: \A col \in subset : ~isna(col, r))

\* lines 99-113
before_price_filter(frame) ==
    dropna(convert_dates(standardize(drop_https(frame))),
           {"price", "collection", "reference_code", "life_span_date"})

\* line 117: df_clean['price'] > 0 raises TypeError on a str price
price_filter_raises(frame) ==
    \E i \in DOMAIN frame : frame[i]["price"].t = "str"

\* line 117 left out
positive_prices_unfiltered(frame) == frame

\* line 117, once the comparison has not raised
positive_prices(frame) == SelectSeq(frame, LAMBDA r: r["price"].v > 0)

cols_to_drop ==
    {"is_new", "country", "price_before", "price_changed",
     "price_percent_change", "price_difference"}

\* lines 123-124
add_time_columns(frame) ==
    [i \in DOMAIN frame |->
        assign(assign(frame[i], "year", dt_year(frame[i]["life_span_date"])),
               "quarter", dt_quarter(frame[i]["life_span_date"]))]

\* line 132
drop_columns(frame) ==
    [i \in DOMAIN frame |->
        [col \in (DOMAIN frame[i]) \ cols_to_drop |-> frame[i][col]]]

\* after_conversion without the dropna of line 119
after_conversion_keepna(frame) ==
    drop_columns(add_time_columns(frame))

\* lines 119-132
after_conversion(frame) ==
    drop_columns(add_time_columns(dropna(frame, {"price_eur"})))

-----------------------------------------------------------------------------
(* Input datasets *)

BaseRow ==
    [collection |-> " Nautilus ", reference_code |-> "5711",
     life_span_date |-> "2023-05-01", country |-> "FR",
     price |-> Num(10000), currency |-> " usd"]

\* rows that differ from BaseRow in one of the filtered fields
FilterRows ==
    {[BaseRow EXCEPT !["collection"] = "HTTPS://x"],
     [BaseRow EXCEPT !["collection"] = NA],
     [BaseRow EXCEPT !["reference_code"] = NA],
     [BaseRow EXCEPT !["life_span_date"] = "soon"],
     [BaseRow EXCEPT !["life_span_date"] = NA]}

\* rows that differ from BaseRow in price and currency
PriceRows ==
    {[BaseRow EXCEPT !["price"] = pr[1], !["currency"] = pr[2]] :
        pr \in {<<NaN, " usd">>, <<Num(0), " usd">>, <<NonNumeric, " usd">>,
                 <<Num(1075), " usd">>, <<Num(10000), " usd">>,
                 <<Num(10000), "USD">>,
                 <<Num(500), "EUR">>, <<Num(10000), "eur">>,
                 <<Num(10000), "XXX">>}}

DatasetRows == FilterRows \cup PriceRows

\* the frames of n rows, with the default index labels 0 .. n-1
Frames(n) ==
    {[i \in 1..n |-> assign(cells[i], "index", i - 1)] :
        cells \in [1..n -> DatasetRows]}

Datasets == UNION {Frames(n) : n \in 0..MaxRows}

\* What the collaborator does on a call in the dataset passes: it raises
\* or returns an amount, in units of 1/Den(currency) EUR
DatasetAnswers(row) == {Raises, Num(100000), Num(950000)}

\* The rows convert_row is applied to on its own: every currency of the
\* table, EUR, an unknown and an unnormalised one, prices around the
\* window's edges, and the dates of the datasets
ValidatorCurrencies == DOMAIN fallback_rates \cup {"EUR", "XXX", " usd"}

ValidatorPrices(currency) ==
    {NaN, NonNumeric, Num(0 - 5), Num(0), Num(1), Num(999), Num(1000),
     Num(1075), Num(1076), Num(10000), Num(100000), Num(100001),
     Num(107526), Num(107527)}
    \cup (IF currency \in {"JPY", "KRW"}
          THEN {Num(142857), Num(142858), Num(1369863), Num(1369864), Num(2000000)}
          ELSE {})

ValidatorRowsOf(cur) ==
    {[BaseRow EXCEPT !["currency"] = cur, !["price"] = price,
                     !["life_span_date"] = date] :
        price \in ValidatorPrices(cur),
        date \in {"2023-05-01 00:00:00", "soon", NA}}

ValidatorRows == UNION {ValidatorRowsOf(cur) : cur \in ValidatorCurrencies}

\* What the collaborator does on the call for `row`: it raises, returns NaN
\* or returns an amount at or next to the edges that the validator tests
ValidatorAnswers(row) ==
    IF row["price"].t # "num" THEN {Raises}
    ELSE LET d == Den(row["currency"])
             f == fallback_price(row["price"].v, row["currency"])
         IN  {Raises, NaN, Num(0), Num(f),
              Num(f + f \div 10), Num(f + f \div 10 - 1),
              Num(f - f \div 10), Num(f - f \div 10 + 1),
              Num(1000 * d), Num(1000 * d - 1)}
             \cup (IF d <= 1000
                   THEN {Num(100000 * d), Num(100000 * d + 1)} ELSE {})

-----------------------------------------------------------------------------
(* The state machine *)

\* entry: the function under execution; arg: the frame it was called with;
\* pc: "call" before the body runs, "apply" inside df.apply of line 76,
\* "done" once it returned `ret`, "raised" once an exception left it;
\* df: the frame inside convert_prices_to_eur; results: the outcomes of the
\* calls of convert_row made so far, in row order; call_no, first_ret: the
\* number of clean_data calls of the chain and what the first returned.
Init ==
    /\ entry \in {"clean_data", "convert_prices_to_eur"}
    /\ arg \in Datasets
    /\ pc = "call"
    /\ df = <<>>
    /\ results = <<>>
    /\ initial_rows = 0
    /\ ret = <<>>
    /\ call_no = 1
    /\ first_ret = <<>>

\* clean_data, lines 92-118 up to the apply of convert_prices_to_eur
CleanDataBegin ==
    /\ pc = "call"
    /\ entry = "clean_data"
    /\ initial_rows' = Len(arg)
    /\ results' = <<>>
    /\ IF price_filter_raises(before_price_filter(arg))
       THEN /\ pc' = "raised"
            /\ df' = <<>>
       ELSE /\ pc' = "apply"
            /\ df' = save_original(positive_prices(before_price_filter(arg)))
    /\ UNCHANGED <<entry, arg, ret, call_no, first_ret>>

\* convert_prices_to_eur called on its own, lines 28-74
ConvertPricesBegin ==
    /\ pc = "call"
    /\ entry = "convert_prices_to_eur"
    /\ pc' = "apply"
    /\ df' = save_original(arg)
    /\ results' = <<>>
    /\ UNCHANGED <<entry, arg, initial_rows, ret, call_no, first_ret>>

\* line 76: apply calls convert_row on the next row, whose collaborator call
\* (if it makes one) is answered by ans; an exception that leaves
\* convert_row leaves apply and its callers
ApplyAnswered(ans) ==
    /\ results' = Append(results, convert_row(df[Len(results) + 1], ans))
    /\ pc' = IF convert_row(df[Len(results) + 1], ans).value = Raises
             THEN "raised" ELSE "apply"
    /\ UNCHANGED <<entry, arg, df, initial_rows, ret, call_no, first_ret>>

ApplyRow ==
    /\ entry # "convert_row"
    /\ pc = "apply"
    /\ Len(results) < Len(df)
    /\ \E ans \in DatasetAnswers(df[Len(results) + 1]) : ApplyAnswered(ans)

\* convert_prices_to_eur called on its own, lines 76-85
ConvertPricesEnd ==
    /\ pc = "apply"
    /\ entry = "convert_prices_to_eur"
    /\ Len(results) = Len(df)
    /\ ret' = set_price_eur(df, results)
    /\ pc' = "done"
    /\ UNCHANGED <<entry, arg, df, results, initial_rows, call_no, first_ret>>

\* clean_data, lines 76-85 and 119-141, once apply has gone through the rows
\* of df (none when df is empty); line 138 divides by initial_rows, which
\* raises ZeroDivisionError for an empty input frame
CleanDataEnd ==
    /\ pc = "apply"
    /\ entry = "clean_data"
    /\ Len(results) = Len(df)
    /\ IF initial_rows = 0
       THEN /\ pc' = "raised"
            /\ ret' = ret
       ELSE /\ pc' = "done"
            /\ ret' = after_conversion(set_price_eur(df, results))
    /\ UNCHANGED <<entry, arg, df, results, initial_rows, call_no, first_ret>>

\* the caller hands the frame clean_data returned to clean_data again
CleanAgain ==
    /\ pc = "done"
    /\ entry = "clean_data"
    /\ call_no = 1
    /\ arg' = ret
    /\ first_ret' = ret
    /\ call_no' = 2
    /\ pc' = "call"
    /\ UNCHANGED <<entry, df, results, initial_rows, ret>>

Next ==
    \/ CleanDataBegin
    \/ ConvertPricesBegin
    \/ ApplyRow
    \/ ConvertPricesEnd
    \/ CleanDataEnd
    \/ CleanAgain

Spec == Init /\ [][Next]_vars

\* convert_row applied to one row
InitRow ==
    /\ entry = "convert_row"
    /\ \E row \in ValidatorRows : df = <<assign(row, "index", 0)>>
    /\ arg = <<>>
    /\ pc = "apply"
    /\ results = <<>>
    /\ initial_rows = 0
    /\ ret = <<>>
    /\ call_no = 1
    /\ first_ret = <<>>

ConvertRow ==
    /\ entry = "convert_row"
    /\ pc = "apply"
    /\ Len(results) < Len(df)
    /\ \E ans \in ValidatorAnswers(df[Len(results) + 1]) : ApplyAnswered(ans)

NextRow == ConvertRow

SpecRow == InitRow /\ [][NextRow]_vars

-----------------------------------------------------------------------------
(* Vocabulary of the properties, stated on the outcomes in `results` *)

Outcomes == {results[i] : i \in DOMAIN results}

Price(e) == e.row["price"]
Currency(e) == e.row["currency"]
Known(cur) == cur \in DOMAIN get_fallback_rates

\* the amount n, in units of 1/Den(cur) EUR, lies in [1000, 100000] EUR
Plausible(n, cur) ==
    /\ n >= 1000 * Den(cur)
    /\ n >= 1 => (n - 1) \div Den(cur) < 100000

\* price * fallback_rate[currency], in units of 1/Den(currency) EUR
FallbackEur(e) ==
    IF Known(Currency(e)) THEN Price(e).v * get_fallback_rates[Currency(e)].num ELSE 0

\* |n - fallback| / fallback < 10%
Below10Percent(n, e) == 10 * abs(n - FallbackEur(e)) < FallbackEur(e)

\* the row passed input validation, is not EUR, and step 3 was reached
ReachedLookup(e) == e.calls >= 1

\* C2: a EUR row is retained with price_eur = price iff 1000 <= price <=
\* 100000, otherwise it gets no conversion; the collaborator is not called
C2_EurRows ==
    \A e \in Outcomes :
        (Currency(e) = "EUR" /\ Price(e).t # "str") =>
            /\ e.calls = 0
            /\ e.value = IF Price(e).t = "num" /\ 1000 <= Price(e).v
                            /\ Price(e).v <= 100000
                         THEN Num(Price(e).v) ELSE NaN

C2_Witness ==
    \E e \in Outcomes :
        Currency(e) = "EUR" /\ Price(e) = Num(100000) /\ e.value = Num(100000)

\* C4: when the historical-rate step gives no accepted result, the outcome is
\* the fallback-only outcome whatever the collaborator did
C4_FallbackOnly ==
    \A e \in Outcomes :
        (/\ ReachedLookup(e)
         /\ \/ e.answer.t # "num"
            \/ ~Plausible(e.answer.v, Currency(e))
            \/ ~Below10Percent(e.answer.v, e))
        => e.value = IF Known(Currency(e)) /\ Plausible(FallbackEur(e), Currency(e))
                     THEN Num(FallbackEur(e)) ELSE NaN

\* 10000 USD with a raising collaborator gives 9300.00 EUR
C4_Witness ==
    \E e \in Outcomes :
        /\ Currency(e) = "USD" /\ Price(e) = Num(10000)
        /\ e.answer = Raises /\ e.value = Num(930000)

\* C5: the collaborator's answer is returned iff it lies in [1000, 100000]
\* and deviates from the fallback price by strictly less than 10%
C5_HistoricalAccepted ==
    \A e \in Outcomes :
        ReachedLookup(e) =>
            /\ e.path = "historical" <=>
                  /\ e.answer.t = "num"
                  /\ Plausible(e.answer.v, Currency(e))
                  /\ Below10Percent(e.answer.v, e)
            /\ e.path = "historical" => e.value = e.answer
            /\ (e.answer.t = "num" /\ 10 * abs(e.answer.v - FallbackEur(e)) = FallbackEur(e))
                  => e.path # "historical"

C5_Witness ==
    \E e \in Outcomes :
        /\ e.path = "historical"
        /\ e.value = e.answer
        /\ e.value # Num(FallbackEur(e))
        /\ Plausible(FallbackEur(e), Currency(e))

\* C6: a row whose currency is neither EUR nor in the fallback table gets no
\* conversion, whatever the collaborator returns
C6_UnknownCurrency ==
    \A e \in Outcomes :
        (Currency(e) # "EUR" /\ ~Known(Currency(e)) /\ Price(e).t # "str")
            => e.value = NaN

C6_Witness ==
    \E e \in Outcomes :
        /\ Currency(e) = "XXX"
        /\ e.calls = 1
        /\ e.answer.t = "num" /\ 1000 <= e.answer.v /\ e.answer.v <= 100000
        /\ e.value = NaN

\* C10: a non-EUR row that gets a price_eur has a currency of the fallback
\* table, and the price_eur is the fallback price or within 10% of it
C10_NearFallback ==
    \A e \in Outcomes :
        (e.value.t = "num" /\ Currency(e) # "EUR") =>
            /\ Known(Currency(e))
            /\ \/ e.value.v = FallbackEur(e)
               \/ Below10Percent(e.value.v, e)

\* the historical value is accepted while the fallback price is below 1000
C10_Witness ==
    \E e \in Outcomes :
        /\ e.value.t = "num" /\ Currency(e) # "EUR"
        /\ e.value.v # FallbackEur(e)
        /\ ~Plausible(FallbackEur(e), Currency(e))

-----------------------------------------------------------------------------
(* Properties of the dataset passes *)

Rows(frame) == {frame[i] : i \in DOMAIN frame}

\* C1: every record clean_data returns has a price_eur in [1000, 100000],
\* a price > 0 and a parsed life_span_date
C1_OutputInvariant ==
    (entry = "clean_data" /\ pc = "done") =>
        \A r \in Rows(ret) :
            /\ r["price_eur"].t = "num"
            /\ Plausible(r["price_eur"].v, r["currency"])
            /\ r["price"].t = "num" /\ r["price"].v > 0
            /\ r["life_span_date"] = "2023-05-01 00:00:00"

C1_Witness ==
    /\ entry = "clean_data" /\ pc = "done"
    /\ Len(ret) >= 1 /\ Len(ret) < initial_rows
    /\ \E e \in Outcomes : e.path = "historical"
    /\ \E e \in Outcomes : e.value = NaN

\* C3: no exception leaves convert_row, so convert_prices_to_eur never raises
C3_NeverPropagates ==
    entry = "convert_prices_to_eur" => pc # "raised"

\* C7: clean_data applied to what clean_data returned returns the same frame
C7_Idempotent ==
    (call_no = 2 /\ pc \in {"done", "raised"}) => (pc = "done" /\ ret = first_ret)

\* a row of the input that one of the filters of lines 99-117 removes
FilteredOut(r) ==
    \/ r["collection"] = "HTTPS://x"
    \/ r["price"] = NaN
    \/ r["collection"] = NA
    \/ r["reference_code"] = NA
    \/ r["life_span_date"] \in {NA, NaT}
    \/ r["life_span_date"] = "soon"
    \/ r["price"].t = "num" /\ r["price"].v <= 0

\* C8: convert_row (and so the collaborator) is never called on a row that
\* an earlier filter of clean_data drops
C8_FilteredBeforeConversion ==
    entry = "clean_data" =>
        \A r \in Rows(arg) :
            FilteredOut(r) => \A e \in Outcomes : e.row["index"] # r["index"]

C8_Witness ==
    /\ entry = "clean_data" /\ pc = "done" /\ call_no = 1
    /\ \E r \in Rows(arg) : r["price"] = Num(0)
    /\ \E e \in Outcomes : e.calls = 1

\* C9 as stated: every row handed to convert_row causes exactly one call of
\* the collaborator
C9_ExactlyOneCall ==
    \A e \in Outcomes : e.calls = 1

\* C9 as amended: at most one call per row, and exactly one iff the row has a
\* positive numeric price, is not EUR and its date converts without error
C9_AtMostOneCall ==
    \A e \in Outcomes :
        /\ e.calls <= 1
        /\ e.calls = 1 <=>
              /\ Price(e).t = "num" /\ Price(e).v > 0
              /\ Currency(e) # "EUR"
              /\ e.row["life_span_date"] # "soon"

C9_Witness ==
    /\ pc = "done"
    /\ \E e \in Outcomes : e.calls = 1
    /\ \E e \in Outcomes : e.calls = 0 /\ Currency(e) = "EUR"

====
